---- MODULE Spec2Model ----
(***************************************************************************)
(* cancelreader: a blocking Read on an input stream that another goroutine *)
(* can abort with Cancel.  One reader instance is modelled, built by       *)
(* NewReader over one of its backends:                                     *)
(*   "epoll"  epollCancelReader  (epoll over the source and a wakeup pipe) *)
(*   "win"    winCancelReader    (WaitForMultipleObjects + overlapped read *)
(*                                + the blockingReadSignal rendezvous)     *)
(* One goroutine issues Read calls one after the other, the goroutines of  *)
(* Cancellers issue Cancel calls, and Close is called once when no call is *)
(* in progress.  Every blocking point of the code is a separate step, so   *)
(* that every interleaving of Read and Cancel is explored.                 *)
(***************************************************************************)
EXTENDS Integers, Sequences, FiniteSets, TLC

(***************************************************************************)
(* Bounds of the model.                                                    *)
(***************************************************************************)
\* Read calls issued on the instance.
MaxReads == 2
\* Cancel calls issued on the instance (over all cancelling goroutines).
MaxCancels == 3
\* Bytes the source ever delivers.
MaxData == 2
\* Largest buffer handed to Read.
MaxBuf == 2
\* Input events that signal CONIN$ without being readable.
MaxEvents == 1
\* OS calls that fail (or are interrupted) before Close is called.
MaxFaults == 1
\* Bytes the wakeup pipe holds before a write to it blocks.  The kernel's
\* pipe buffer is finite (65536 bytes by default on Linux); it is scaled
\* down here so that a full pipe is within reach of MaxCancels.
PipeCap == 2

\* The goroutines that call Cancel: at most two calls are in progress at a
\* time.  They are interchangeable, so a call is given to the first one that
\* is free.
Cancellers == {1, 2}
\* The backends NewReader selects between.
Backends == {"epoll", "win"}

(***************************************************************************)
(* Values of the x/sys/windows wait API used by winCancelReader.wait.      *)
(***************************************************************************)
WAIT_OBJECT_0 == 0
WAIT_ABANDONED == 128
WAIT_TIMEOUT == 258
\* 0xFFFFFFFF, written as the 32-bit two's complement value.
WAIT_FAILED == -1
\* Capacity of blockingReadSignal: make(chan struct{}, 1).
SlotCap == 1

VARIABLES
    backend,     \* which reader NewReader returned
    canceled,    \* cancelMixin: the cancellation flag
    arrived,     \* bytes the source has received so far
    pos,         \* bytes consumed from the source so far
    events,      \* win: input events that were not readable, so far
    spurious,    \* win: CONIN$ is signalled by an input event ReadFile cannot read
    pipe,        \* epoll: bytes pending in the wakeup pipe
    eventSet,    \* win: cancelEvent (auto-reset) is signalled
    slot,        \* win: tokens in blockingReadSignal
    io,          \* win: the overlapped read of the current readAsync
    hevents,     \* win: completion events created by readAsync and still open
    open,        \* OS objects created by NewReader and not yet released
    closed,      \* Close has been called
    closeLog,    \* what Close attempted and what it returned
    rpc,         \* where the reading goroutine is inside Read
    rbuf,        \* len(data) of the Read call in progress
    rd,          \* the Read call in progress (or the last one): its record
    reads,       \* Read calls issued
    delivered,   \* the bytes Read calls have returned to the caller, in order
    cpc,         \* where each cancelling goroutine is inside Cancel
    cn,          \* per cancelling goroutine: the record of its current (last) call
    cancels,     \* Cancel calls issued
    cancelDone,  \* some Cancel call has returned
    faultsLeft,  \* OS failures the environment may still inject
    iso,         \* Cancel calls made back to back with nothing else running
    ctor,        \* NewReader: where it is, and the error it has returned
    task         \* fallback: the background read task of the current Read

vars == <<backend, canceled, arrived, pos, events, spurious, pipe, eventSet, slot, io,
          hevents, open, closed, closeLog, rpc, rbuf, rd, reads, delivered,
          cpc, cn, cancels, cancelDone, faultsLeft, iso, ctor, task>>

srcVars == <<arrived, pos, events, spurious>>
epollVars == <<pipe>>
winVars == <<eventSet, slot, io, hevents>>
closeVars == <<open, closed, closeLog>>
readVars == <<rpc, rbuf, rd, reads, delivered>>
cancelVars == <<cpc, cn, cancels, cancelDone>>

(***************************************************************************)
(* The source: a byte stream; byte number i has the value i.               *)
(***************************************************************************)
Min(a, b) == IF a < b THEN a ELSE b

\* Bytes readable from the source right now.
Avail == arrived - pos

\* The bytes a read of up to len bytes takes from the source.
Take(len) == Min(len, Avail)

\* The bytes number from+1 .. to of the stream.
Bytes(from, to) == [i \in 1..(to - from) |-> from + i]

(***************************************************************************)
(* cancelMixin: the shared cancellation flag.                              *)
(***************************************************************************)
isCanceled == canceled

setCanceled == canceled' = TRUE

(***************************************************************************)
(* Records of the calls, kept for the properties.                          *)
(***************************************************************************)
\* A Read call that has just started.
NewRead(k) ==
    [k |-> k, afterCancel |-> cancelDone, err |-> "pending", n |-> 0,
     pos0 |-> pos, waits |-> 0, srcReads |-> 0, faulted |-> FALSE]

\* No Read call yet.
NoRead == [k |-> 0, afterCancel |-> FALSE, err |-> "none", n |-> 0,
           pos0 |-> 0, waits |-> 0, srcReads |-> 0, faulted |-> FALSE]

\* A Cancel call that has just started.
\*   ret        "pending", then what it returned: "true" or "false"
\*   why        why it returned false: "timeout" or "error"
\*   readK      the Read call in flight when it returned (0: none)
\*   polled     win: the tokens in the slot when the select was entered
\*   signalled  it has written to the pipe (epoll), signalled cancelEvent (win)
NewCancel ==
    [ret |-> "pending", why |-> "", readK |-> 0, polled |-> -1,
     signalled |-> FALSE]

\* No Cancel call yet.
NoCancel == [ret |-> "none", why |-> "", readK |-> 0, polled |-> -1,
             signalled |-> FALSE]

\* Cancel calls made one after the other on a quiescent instance, with no
\* other call and no event in between.
\*   who      the goroutine whose call is in progress (0: none)
\*   count    the calls of the run that have returned
\*   clean    no OS call of the run has failed
\*   prevRet, curRet   what the last two of them returned
NoIso == [who |-> 0, count |-> 0, clean |-> TRUE, prevRet |-> "none",
          curRet |-> "none"]

\* The goroutine that takes the next Cancel call.
FirstFree(c) == cpc[c] = "idle" /\ \A d \in Cancellers : d < c => cpc[d] # "idle"

(***************************************************************************)
(* Back-to-back Cancel calls with nothing else running (iso).              *)
(***************************************************************************)
IsoReset == iso' = NoIso

IsoStart(c) ==
    iso' = IF rpc = "idle" /\ \A d \in Cancellers : cpc[d] = "idle"
           THEN [iso EXCEPT !.who = c]
           ELSE NoIso

IsoStep(c, fault) ==
    iso' = IF iso.who = c
           THEN [iso EXCEPT !.clean = @ /\ ~fault]
           ELSE NoIso

IsoReturn(c, ret, fault) ==
    iso' = IF iso.who = c
           THEN [who |-> 0, count |-> iso.count + 1,
                 clean |-> iso.clean /\ ~fault,
                 prevRet |-> iso.curRet, curRet |-> ret]
           ELSE NoIso

(***************************************************************************)
(* Returning from Read and from Cancel.                                    *)
(***************************************************************************)
\* Read goes on to the step at, with the record r.
ReadGoes(at, r) ==
    /\ rpc' = at
    /\ rd' = r
    /\ rbuf' = rbuf
    /\ delivered' = delivered

\* Read returns (n, err), the source being at position p: the caller gets
\* the first n of the bytes this call has put into data.  fault tells that
\* an OS call of this Read failed.
ReadReturns(r, n, err, fault, p) ==
    /\ rpc' = "idle"
    /\ rbuf' = 0
    /\ rd' = [r EXCEPT !.n = n, !.err = err, !.faulted = @ \/ fault]
    /\ delivered' = delivered \o SubSeq(Bytes(r.pos0, p), 1, n)

CancelReturns(c, rec, ret, why) ==
    /\ cpc' = [cpc EXCEPT ![c] = "idle"]
    /\ cn' = [cn EXCEPT ![c] = [rec EXCEPT !.ret = ret, !.why = why,
                                         !.readK = IF rpc = "idle" THEN 0 ELSE rd.k]]
    /\ cancelDone' = TRUE

(***************************************************************************)
(* epollCancelReader                                                       *)
(***************************************************************************)
\* What unix.EpollWait can report: an errno, and the descriptor of events[0].
\* With both descriptors ready either of them may be the one reported.
EpollWaitOutcomes ==
    {o \in {[errno |-> "ok", fd |-> "file"]} : Avail > 0}
    \cup {o \in {[errno |-> "ok", fd |-> "cancelSignalReader"]} : pipe > 0}
    \cup {o \in {[errno |-> "EINTR", fd |-> "none"],
                 [errno |-> "EBADF", fd |-> "none"]} : faultsLeft > 0}

\* A faulty wait() whose switch takes the wakeup pipe for the source.
epollWaitResult_PipeIsSource(out) ==
    CASE out.errno = "EINTR" -> "retry"
      [] out.errno # "ok" -> "kevent"
      [] out.fd = "file" -> "nil"
      [] out.fd = "cancelSignalReader" -> "nil"
      [] OTHER -> "unknown error"

\* wait(): the error it returns for what EpollWait reported ("retry": the
\* loop calls EpollWait again).
epollWaitResult(out) ==
    CASE out.errno = "EINTR" -> "retry"
      [] out.errno # "ok" -> "kevent"
      [] out.fd = "file" -> "nil"
      [] out.fd = "cancelSignalReader" -> "ErrCanceled"
      [] OTHER -> "unknown error"

\* A faulty Read that goes to the readiness wait without testing the flag.
EpollReadStart_NoCheck(len) ==
    /\ backend = "epoll" /\ rpc = "idle" /\ ~closed /\ reads < MaxReads
    /\ reads' = reads + 1
    /\ rpc' = "wait" /\ rd' = NewRead(reads + 1) /\ rbuf' = len
    /\ delivered' = delivered
    /\ IsoReset
    /\ UNCHANGED <<backend, ctor, task, canceled, srcVars, epollVars, winVars, closeVars,
                   cancelVars, faultsLeft>>

\* Read, up to the readiness wait.
EpollReadStart(len) ==
    /\ backend = "epoll" /\ rpc = "idle" /\ ~closed /\ reads < MaxReads
    /\ reads' = reads + 1
    /\ IF isCanceled
       THEN ReadReturns(NewRead(reads + 1), 0, "ErrCanceled", FALSE, pos)
       ELSE rpc' = "wait" /\ rd' = NewRead(reads + 1) /\ rbuf' = len
            /\ delivered' = delivered
    /\ IsoReset
    /\ UNCHANGED <<backend, ctor, task, canceled, srcVars, epollVars, winVars, closeVars,
                   cancelVars, faultsLeft>>

\* r.wait() returns, and Read acts on its result.
EpollReadWait ==
    /\ backend = "epoll" /\ rpc = "wait"
    /\ \E out \in EpollWaitOutcomes :
         LET err == epollWaitResult(out)
             r == [rd EXCEPT !.waits = @ + 1]
         IN  /\ faultsLeft' = IF out.errno = "ok" THEN faultsLeft ELSE faultsLeft - 1
             /\ CASE err = "retry" -> ReadGoes("wait", rd)
                  [] err = "nil" -> ReadGoes("fileRead", r)
                  [] err = "ErrCanceled" -> ReadGoes("drain", r)
                  [] OTHER -> ReadReturns(r, 0, err, TRUE, pos)
    /\ IsoReset
    /\ UNCHANGED <<backend, ctor, task, canceled, srcVars, epollVars, winVars, closeVars,
                   reads, cancelVars>>

\* The cancel signal is removed from the pipe: cancelSignalReader.Read(b[:]).
EpollReadDrain ==
    /\ backend = "epoll" /\ rpc = "drain"
    /\ \/ /\ pipe > 0
          /\ pipe' = pipe - 1
          /\ ReadReturns(rd, 0, "ErrCanceled", FALSE, pos)
          /\ UNCHANGED faultsLeft
       \/ /\ faultsLeft > 0
          /\ faultsLeft' = faultsLeft - 1
          /\ ReadReturns(rd, 0, "reading cancel signal", TRUE, pos)
          /\ UNCHANGED pipe
    /\ IsoReset
    /\ UNCHANGED <<backend, ctor, task, canceled, srcVars, winVars, closeVars, reads,
                   cancelVars>>

\* A faulty Read that tests the flag once more after r.file.Read and drops
\* what it has read when the flag is set.
EpollReadFile_DropOnCancel ==
    /\ backend = "epoll" /\ rpc = "fileRead"
    /\ Avail > 0
    /\ pos' = pos + Take(rbuf)
    /\ IF isCanceled
       THEN ReadReturns([rd EXCEPT !.srcReads = @ + 1], 0, "ErrCanceled", FALSE,
                        pos + Take(rbuf))
       ELSE ReadReturns([rd EXCEPT !.srcReads = @ + 1], Take(rbuf), "nil", FALSE,
                        pos + Take(rbuf))
    /\ IsoReset
    /\ UNCHANGED <<backend, ctor, task, canceled, arrived, events, spurious, epollVars, winVars,
                   closeVars, reads, cancelVars, faultsLeft>>

\* r.file.Read(data)
EpollReadFile ==
    /\ backend = "epoll" /\ rpc = "fileRead"
    /\ \/ /\ Avail > 0
          /\ pos' = pos + Take(rbuf)
          /\ ReadReturns([rd EXCEPT !.srcReads = @ + 1], Take(rbuf), "nil", FALSE,
                        pos + Take(rbuf))
          /\ UNCHANGED faultsLeft
       \/ /\ faultsLeft > 0
          /\ faultsLeft' = faultsLeft - 1
          /\ ReadReturns([rd EXCEPT !.srcReads = @ + 1], 0, "EIO", TRUE, pos)
          /\ UNCHANGED pos
    /\ IsoReset
    /\ UNCHANGED <<backend, ctor, task, canceled, arrived, events, spurious, epollVars, winVars,
                   closeVars, reads, cancelVars>>

\* Cancel, up to the write to the pipe.
EpollCancelStart(c) ==
    /\ backend = "epoll" /\ FirstFree(c) /\ ~closed /\ cancels < MaxCancels
    /\ setCanceled
    /\ cancels' = cancels + 1
    /\ cpc' = [cpc EXCEPT ![c] = "write"]
    /\ cn' = [cn EXCEPT ![c] = NewCancel]
    /\ IsoStart(c)
    /\ UNCHANGED <<backend, ctor, task, srcVars, epollVars, winVars, closeVars, readVars,
                   cancelDone, faultsLeft>>

\* A faulty Cancel that sets the flag and returns without a write to the pipe.
EpollCancelWrite_NoSignal(c) ==
    /\ backend = "epoll" /\ cpc[c] = "write"
    /\ CancelReturns(c, cn[c], "true", "")
    /\ IsoReturn(c, "true", FALSE)
    /\ UNCHANGED <<backend, ctor, task, canceled, srcVars, epollVars, winVars, closeVars,
                   readVars, cancels, faultsLeft>>

\* r.cancelSignalWriter.Write([]byte{'c'}); it blocks while the pipe is full.
EpollCancelWrite(c) ==
    /\ backend = "epoll" /\ cpc[c] = "write"
    /\ \/ /\ pipe < PipeCap
          /\ pipe' = pipe + 1
          /\ CancelReturns(c, [cn[c] EXCEPT !.signalled = TRUE], "true", "")
          /\ IsoReturn(c, "true", FALSE)
          /\ UNCHANGED faultsLeft
       \/ /\ faultsLeft > 0
          /\ faultsLeft' = faultsLeft - 1
          /\ CancelReturns(c, cn[c], "false", "error")
          /\ IsoReturn(c, "false", TRUE)
          /\ UNCHANGED pipe
    /\ UNCHANGED <<backend, ctor, task, canceled, srcVars, winVars, closeVars, readVars,
                   cancels>>

(***************************************************************************)
(* winCancelReader                                                         *)
(***************************************************************************)
\* CONIN$ is signalled: input is pending, readable or not.
ConinSignalled == Avail > 0 \/ spurious

\* What windows.WaitForMultipleObjects({conin, cancelEvent}) can report.
\* With both objects signalled either of them may be the one reported.
WinWaitOutcomes ==
    {e \in {WAIT_OBJECT_0} : ConinSignalled}
    \cup {e \in {WAIT_OBJECT_0 + 1} : eventSet}
    \cup {e \in {WAIT_FAILED} : faultsLeft > 0}

\* wait(): the error it returns for the event WaitForMultipleObjects reported.
winWaitResult(event) ==
    CASE WAIT_OBJECT_0 <= event /\ event < WAIT_OBJECT_0 + 2 ->
             IF event = WAIT_OBJECT_0 + 1 THEN "ErrCanceled"
             ELSE IF event = WAIT_OBJECT_0 THEN "nil"
             ELSE "unexpected wait object is ready"
      [] WAIT_ABANDONED <= event /\ event < WAIT_ABANDONED + 2 -> "abandoned"
      [] event = WAIT_TIMEOUT -> "timeout"
      [] event = WAIT_FAILED -> "failed"
      [] OTHER -> "unexpected error"

\* A faulty Read that tests the flag only after the wait.
WinReadStart_WaitFirst(len) ==
    /\ backend = "win" /\ rpc = "idle" /\ ~closed /\ reads < MaxReads
    /\ reads' = reads + 1
    /\ rpc' = "wait" /\ rd' = NewRead(reads + 1) /\ rbuf' = len
    /\ delivered' = delivered
    /\ IsoReset
    /\ UNCHANGED <<backend, ctor, task, canceled, srcVars, epollVars, winVars, closeVars,
                   cancelVars, faultsLeft>>

\* Read, up to the wait.
WinReadStart(len) ==
    /\ backend = "win" /\ rpc = "idle" /\ ~closed /\ reads < MaxReads
    /\ reads' = reads + 1
    /\ IF isCanceled
       THEN ReadReturns(NewRead(reads + 1), 0, "ErrCanceled", FALSE, pos)
       ELSE rpc' = "wait" /\ rd' = NewRead(reads + 1) /\ rbuf' = len
            /\ delivered' = delivered
    /\ IsoReset
    /\ UNCHANGED <<backend, ctor, task, canceled, srcVars, epollVars, winVars, closeVars,
                   cancelVars, faultsLeft>>

\* r.wait() returns, and Read acts on its result.  A wait satisfied by the
\* auto-reset cancelEvent resets it.
WinReadWait ==
    /\ backend = "win" /\ rpc = "wait"
    /\ \E event \in WinWaitOutcomes :
         LET err == winWaitResult(event)
             r == [rd EXCEPT !.waits = @ + 1]
         IN  /\ faultsLeft' = IF event = WAIT_FAILED THEN faultsLeft - 1 ELSE faultsLeft
             /\ eventSet' = IF event = WAIT_OBJECT_0 + 1 THEN FALSE ELSE eventSet
             /\ CASE err = "nil" -> ReadGoes("check", r)
                  [] err = "ErrCanceled" -> ReadReturns(r, 0, err, FALSE, pos)
                  [] OTHER -> ReadReturns(r, 0, err, TRUE, pos)
    /\ IsoReset
    /\ UNCHANGED <<backend, ctor, task, canceled, srcVars, epollVars, slot, io, hevents,
                   closeVars, reads, cancelVars>>

\* The second isCanceled test, after the wait.
WinReadCheck ==
    /\ backend = "win" /\ rpc = "check"
    /\ IF isCanceled
       THEN ReadReturns(rd, 0, "ErrCanceled", FALSE, pos)
       ELSE ReadGoes("createEvent", rd)
    /\ IsoReset
    /\ UNCHANGED <<backend, ctor, task, canceled, srcVars, epollVars, winVars, closeVars,
                   reads, cancelVars, faultsLeft>>

\* readAsync: windows.CreateEvent for the overlapped read.
WinReadCreateEvent ==
    /\ backend = "win" /\ rpc = "createEvent"
    /\ \/ /\ hevents' = hevents + 1
          /\ ReadGoes("readFile", rd)
          /\ UNCHANGED faultsLeft
       \/ /\ faultsLeft > 0
          /\ faultsLeft' = faultsLeft - 1
          /\ ReadReturns(rd, 0, "create event", TRUE, pos)
          /\ UNCHANGED hevents
    /\ IsoReset
    /\ UNCHANGED <<backend, ctor, task, canceled, srcVars, epollVars, eventSet, slot, io,
                   closeVars, reads, cancelVars>>

\* readAsync: windows.ReadFile(r.conin, data, &n, &overlapped).  It completes
\* at once (input is readable), stays pending, or fails; input events that
\* are not readable are discarded by it.
WinReadFile ==
    /\ backend = "win" /\ rpc = "readFile"
    /\ spurious' = FALSE
    /\ \/ /\ Avail > 0
          /\ pos' = pos + Take(rbuf)
          /\ io' = "done"
          /\ ReadGoes("post", [rd EXCEPT !.srcReads = @ + 1, !.n = Take(rbuf)])
          /\ UNCHANGED faultsLeft
       \/ /\ io' = "pending"
          /\ ReadGoes("post", [rd EXCEPT !.srcReads = @ + 1])
          /\ UNCHANGED <<pos, faultsLeft>>
       \/ /\ faultsLeft > 0
          /\ faultsLeft' = faultsLeft - 1
          /\ io' = "none"
          /\ ReadReturns([rd EXCEPT !.srcReads = @ + 1], 0, "ReadFile", TRUE, pos)
          /\ UNCHANGED pos
    /\ IsoReset
    /\ UNCHANGED <<backend, ctor, task, canceled, arrived, events, epollVars, eventSet, slot, hevents,
                   closeVars, reads, cancelVars>>

\* readAsync: r.blockingReadSignal <- struct{}{}
WinReadPost ==
    /\ backend = "win" /\ rpc = "post"
    /\ slot < SlotCap
    /\ slot' = slot + 1
    /\ ReadGoes("getResult", rd)
    /\ IsoReset
    /\ UNCHANGED <<backend, ctor, task, canceled, srcVars, epollVars, eventSet, io, hevents,
                   closeVars, reads, cancelVars, faultsLeft>>

\* readAsync: windows.GetOverlappedResult(r.conin, &overlapped, &n, true).
\* On an error readAsync returns (n, nil) at once.
WinReadGetResult ==
    /\ backend = "win" /\ rpc = "getResult"
    /\ \/ /\ io = "done"
          /\ ReadGoes("ack", rd)
          /\ UNCHANGED <<pos, faultsLeft>>
       \/ /\ io = "pending" /\ Avail > 0
          /\ pos' = pos + Take(rbuf)
          /\ ReadGoes("ack", [rd EXCEPT !.n = Take(rbuf)])
          /\ UNCHANGED faultsLeft
       \/ /\ io = "pending" /\ faultsLeft > 0
          /\ faultsLeft' = faultsLeft - 1
          /\ ReadReturns(rd, 0, "nil", TRUE, pos)
          /\ UNCHANGED pos
    /\ io' = "none"
    /\ IsoReset
    /\ UNCHANGED <<backend, ctor, task, canceled, arrived, events, spurious, epollVars, eventSet, slot,
                   hevents, closeVars, reads, cancelVars>>

\* readAsync: <-r.blockingReadSignal, and the return of (n, nil).
WinReadAck ==
    /\ backend = "win" /\ rpc = "ack"
    /\ slot > 0
    /\ slot' = slot - 1
    /\ ReadReturns(rd, rd.n, "nil", FALSE, pos)
    /\ IsoReset
    /\ UNCHANGED <<backend, ctor, task, canceled, srcVars, epollVars, eventSet, io, hevents,
                   closeVars, reads, cancelVars, faultsLeft>>

\* Cancel, up to the select.
WinCancelStart(c) ==
    /\ backend = "win" /\ FirstFree(c) /\ ~closed /\ cancels < MaxCancels
    /\ setCanceled
    /\ cancels' = cancels + 1
    /\ cpc' = [cpc EXCEPT ![c] = "select"]
    /\ cn' = [cn EXCEPT ![c] = NewCancel]
    /\ IsoStart(c)
    /\ UNCHANGED <<backend, ctor, task, srcVars, epollVars, winVars, closeVars, readVars,
                   cancelDone, faultsLeft>>

\* The select is entered, the timer of time.After having been started just
\* before.  With the slot free the post can be taken; when the goroutine has
\* been held up for 100 ms before its first poll the timer case is ready as
\* well, and the select takes either of the ready cases; with neither ready
\* Cancel blocks in the select.
WinCancelSelect(c) ==
    /\ backend = "win" /\ cpc[c] = "select"
    /\ \/ /\ slot < SlotCap
          /\ slot' = slot + 1
          /\ cpc' = [cpc EXCEPT ![c] = "setEvent"]
          /\ cn' = [cn EXCEPT ![c].polled = slot]
          /\ IsoStep(c, FALSE)
          /\ UNCHANGED cancelDone
       \/ /\ slot >= SlotCap
          /\ cpc' = [cpc EXCEPT ![c] = "selectWait"]
          /\ cn' = [cn EXCEPT ![c].polled = slot]
          /\ IsoStep(c, FALSE)
          /\ UNCHANGED <<slot, cancelDone>>
       \/ /\ CancelReturns(c, [cn[c] EXCEPT !.polled = slot], "false", "timeout")
          /\ IsoReturn(c, "false", FALSE)
          /\ UNCHANGED slot
    /\ UNCHANGED <<backend, ctor, task, canceled, srcVars, epollVars, eventSet, io, hevents,
                   closeVars, readVars, cancels, faultsLeft>>

\* A faulty select whose timeout branch signals cancelEvent all the same.
WinCancelSelectWait_SignalOnTimeout(c) ==
    /\ backend = "win" /\ cpc[c] = "selectWait"
    /\ \/ /\ slot < SlotCap
          /\ slot' = slot + 1
          /\ cpc' = [cpc EXCEPT ![c] = "setEvent"]
          /\ IsoStep(c, FALSE)
          /\ UNCHANGED <<cn, cancelDone, eventSet>>
       \/ /\ CancelReturns(c, cn[c], "false", "timeout")
          /\ IsoReturn(c, "false", FALSE)
          /\ eventSet' = TRUE
          /\ UNCHANGED slot
    /\ UNCHANGED <<backend, ctor, task, canceled, srcVars, epollVars, io, hevents,
                   closeVars, readVars, cancels, faultsLeft>>

\* Blocked in the select: the slot becomes free and the post is taken, or
\* the 100 ms of time.After pass and Cancel returns false.
WinCancelSelectWait(c) ==
    /\ backend = "win" /\ cpc[c] = "selectWait"
    /\ \/ /\ slot < SlotCap
          /\ slot' = slot + 1
          /\ cpc' = [cpc EXCEPT ![c] = "setEvent"]
          /\ IsoStep(c, FALSE)
          /\ UNCHANGED <<cn, cancelDone>>
       \/ /\ CancelReturns(c, cn[c], "false", "timeout")
          /\ IsoReturn(c, "false", FALSE)
          /\ UNCHANGED slot
    /\ UNCHANGED <<backend, ctor, task, canceled, srcVars, epollVars, eventSet, io, hevents,
                   closeVars, readVars, cancels, faultsLeft>>

\* windows.SetEvent(r.cancelEvent); on an error Cancel returns false at once.
WinCancelSetEvent(c) ==
    /\ backend = "win" /\ cpc[c] = "setEvent"
    /\ \/ /\ eventSet' = TRUE
          /\ cpc' = [cpc EXCEPT ![c] = "ack"]
          /\ cn' = [cn EXCEPT ![c].signalled = TRUE]
          /\ IsoStep(c, FALSE)
          /\ UNCHANGED <<cancelDone, faultsLeft>>
       \/ /\ faultsLeft > 0
          /\ faultsLeft' = faultsLeft - 1
          /\ CancelReturns(c, cn[c], "false", "error")
          /\ IsoReturn(c, "false", TRUE)
          /\ UNCHANGED eventSet
    /\ UNCHANGED <<backend, ctor, task, canceled, srcVars, epollVars, slot, io, hevents,
                   closeVars, readVars, cancels>>

\* <-r.blockingReadSignal, and the return of true.
WinCancelAck(c) ==
    /\ backend = "win" /\ cpc[c] = "ack"
    /\ slot > 0
    /\ slot' = slot - 1
    /\ CancelReturns(c, cn[c], "true", "")
    /\ IsoReturn(c, "true", FALSE)
    /\ UNCHANGED <<backend, ctor, task, canceled, srcVars, epollVars, eventSet, io, hevents,
                   closeVars, readVars, cancels, faultsLeft>>

(***************************************************************************)
(* Close                                                                   *)
(***************************************************************************)
\* The release steps of Close, in the order the code takes them.
CloseSteps(b) ==
    IF b = "epoll" THEN <<"epoll", "cancelSignalWriter", "cancelSignalReader">>
                   ELSE <<"cancelEvent", "conin">>

\* The objects NewReader creates.
Created(b) == {CloseSteps(b)[i] : i \in 1..Len(CloseSteps(b))}

\* A faulty Close that gives up at the first step that fails.
CloseAttempts_StopAtFailure(steps, failing) ==
    IF \E i \in 1..Len(steps) : steps[i] \in failing
    THEN SubSeq(steps, 1, CHOOSE i \in 1..Len(steps) :
                             /\ steps[i] \in failing
                             /\ \A j \in 1..(i - 1) : steps[j] \notin failing)
    ELSE steps

\* The steps Close attempts when the steps of failing fail: all of them.
CloseAttempts(steps, failing) == steps

\* errors.Join: the non-nil errors, in order; nil (the empty sequence) if none.
Join(errs) == SelectSeq(errs, LAMBDA e : e # "nil")

\* The error of each attempted step.
CloseErrors(steps, failing) ==
    [i \in 1..Len(CloseAttempts(steps, failing)) |->
        IF CloseAttempts(steps, failing)[i] \in failing
        THEN CloseAttempts(steps, failing)[i] ELSE "nil"]

Close ==
    /\ ~closed /\ rpc = "idle" /\ \A c \in Cancellers : cpc[c] = "idle"
    /\ \E failing \in SUBSET Created(backend) :
         LET att == CloseAttempts(CloseSteps(backend), failing)
             tried == {att[i] : i \in 1..Len(att)}
         IN  /\ closed' = TRUE
             /\ open' = open \ (tried \ failing)
             /\ closeLog' = [attempts |-> [o \in Created(backend) |->
                                  Cardinality({i \in 1..Len(att) : att[i] = o})],
                             failed |-> failing,
                             err |-> Join(CloseErrors(CloseSteps(backend), failing))]
    \* The life of the instance ends here: the records of its calls are dropped.
    /\ rd' = NoRead /\ cn' = [c \in Cancellers |-> NoCancel] /\ IsoReset
    /\ UNCHANGED <<backend, ctor, task, canceled, srcVars, epollVars, winVars, rpc, rbuf, reads,
                   delivered, cpc, cancels, cancelDone, faultsLeft>>

(***************************************************************************)
(* NewReader                                                               *)
(***************************************************************************)
\* NewReader has returned a reader and no error.
Constructed == [pc |-> "done", err |-> "nil"]

\* NewReader has not run yet.
NotConstructed == [pc |-> "start", err |-> "nil"]

\* fallback: no background read task.
NoTask == [st |-> "none", len |-> 0, n |-> 0]

\* The OS calls of NewReader, in the order the code makes them.
NewSteps(b) ==
    IF b = "epoll"
    THEN <<"EpollCreate1", "Pipe", "EpollCtl file", "EpollCtl cancelSignalReader">>
    ELSE <<"CreateFile", "flushConsoleInputBuffer", "CreateEvent">>

\* The OS objects a call creates when it succeeds.
Creates(step) ==
    CASE step = "EpollCreate1" -> {"epoll"}
      [] step = "Pipe" -> {"cancelSignalReader", "cancelSignalWriter"}
      [] step = "CreateFile" -> {"conin"}
      [] step = "CreateEvent" -> {"cancelEvent"}
      [] OTHER -> {}

\* The OS objects NewReader closes before it returns the error of a call.
RolledBack(b, step) ==
    IF b = "epoll" /\ step \in {"Pipe", "EpollCtl file", "EpollCtl cancelSignalReader"}
    THEN {"epoll"}
    ELSE {}

\* The objects created by the first n calls of NewReader.
CreatedBy(b, n) == UNION {Creates(NewSteps(b)[i]) : i \in 1..n}

\* What NewReader returns, and the objects open then, when its call number
\* failAt fails (0: none does).
NewReaderOutcome(b, failAt) ==
    IF failAt = 0
    THEN [err |-> "nil", open |-> CreatedBy(b, Len(NewSteps(b)))]
    ELSE [err |-> NewSteps(b)[failAt],
          open |-> CreatedBy(b, failAt - 1) \ RolledBack(b, NewSteps(b)[failAt])]

NewReader ==
    /\ ctor.pc = "start" /\ backend \in Backends
    /\ \E failAt \in 0..Len(NewSteps(backend)) :
         LET out == NewReaderOutcome(backend, failAt)
         IN  /\ open' = out.open
             /\ ctor' = [pc |-> IF out.err = "nil" THEN "done" ELSE "failed",
                         err |-> out.err]
    /\ UNCHANGED <<backend, task, canceled, srcVars, epollVars, winVars, closed,
                   closeLog, readVars, cancelVars, faultsLeft, iso>>

(***************************************************************************)
(* The environment                                                         *)
(***************************************************************************)
\* A byte arrives at the source.
DataArrives ==
    /\ ~closed /\ arrived < MaxData
    /\ arrived' = arrived + 1
    /\ IsoReset
    /\ UNCHANGED <<backend, ctor, task, canceled, pos, events, spurious, epollVars, winVars,
                   closeVars, readVars, cancelVars, faultsLeft>>

\* An input event that ReadFile cannot read (a mouse, focus or resize
\* event) signals CONIN$.
ConsoleEvent ==
    /\ backend = "win" /\ ~closed /\ ~spurious /\ events < MaxEvents
    /\ spurious' = TRUE
    /\ events' = events + 1
    /\ IsoReset
    /\ UNCHANGED <<backend, ctor, task, canceled, arrived, pos, epollVars, winVars,
                   closeVars, readVars, cancelVars, faultsLeft>>

(***************************************************************************)
(* The specification                                                       *)
(***************************************************************************)
\* The instance as NewReader returns it, with f OS failures to come.
InitWith(f) ==
    /\ backend \in Backends
    /\ canceled = FALSE
    /\ arrived = 0 /\ pos = 0 /\ events = 0 /\ spurious = FALSE
    /\ pipe = 0
    /\ eventSet = FALSE /\ slot = 0 /\ io = "none" /\ hevents = 0
    /\ open = Created(backend) /\ closed = FALSE
    /\ closeLog = [attempts |-> [o \in Created(backend) |-> 0], failed |-> {},
                   err |-> <<>>]
    /\ rpc = "idle" /\ rbuf = 0 /\ rd = NoRead /\ reads = 0 /\ delivered = <<>>
    /\ cpc = [c \in Cancellers |-> "idle"]
    /\ cn = [c \in Cancellers |-> NoCancel]
    /\ cancels = 0 /\ cancelDone = FALSE
    /\ faultsLeft = f
    /\ iso = NoIso
    /\ ctor = Constructed
    /\ task = NoTask

Init == InitWith(MaxFaults)

Next ==
    \/ \E len \in 1..MaxBuf : EpollReadStart(len)
    \/ EpollReadWait
    \/ EpollReadDrain
    \/ EpollReadFile
    \/ \E c \in Cancellers : EpollCancelStart(c)
    \/ \E c \in Cancellers : EpollCancelWrite(c)
    \/ \E len \in 1..MaxBuf : WinReadStart(len)
    \/ WinReadWait
    \/ WinReadCheck
    \/ WinReadCreateEvent
    \/ WinReadFile
    \/ WinReadPost
    \/ WinReadGetResult
    \/ WinReadAck
    \/ \E c \in Cancellers : WinCancelStart(c)
    \/ \E c \in Cancellers : WinCancelSelect(c)
    \/ \E c \in Cancellers : WinCancelSelectWait(c)
    \/ \E c \in Cancellers : WinCancelSetEvent(c)
    \/ \E c \in Cancellers : WinCancelAck(c)
    \/ Close
    \/ DataArrives
    \/ ConsoleEvent

Spec == Init /\ [][Next]_vars

(***************************************************************************)
(* The same, from the call of NewReader on.                                *)
(***************************************************************************)
NewInit ==
    /\ backend \in Backends
    /\ canceled = FALSE
    /\ arrived = 0 /\ pos = 0 /\ events = 0 /\ spurious = FALSE
    /\ pipe = 0
    /\ eventSet = FALSE /\ slot = 0 /\ io = "none" /\ hevents = 0
    /\ open = {} /\ closed = FALSE
    /\ closeLog = [attempts |-> [o \in Created(backend) |-> 0], failed |-> {},
                   err |-> <<>>]
    /\ rpc = "idle" /\ rbuf = 0 /\ rd = NoRead /\ reads = 0 /\ delivered = <<>>
    /\ cpc = [c \in Cancellers |-> "idle"]
    /\ cn = [c \in Cancellers |-> NoCancel]
    /\ cancels = 0 /\ cancelDone = FALSE
    /\ faultsLeft = MaxFaults
    /\ iso = NoIso
    /\ ctor = NotConstructed
    /\ task = NoTask

NewNext ==
    \/ NewReader
    \/ ctor.pc = "done" /\ Next

NewSpec == NewInit /\ [][NewNext]_vars

(***************************************************************************)
(* Progress: a goroutine inside Read or Cancel takes its next step when it *)
(* can; nothing obliges a caller to call, data to arrive, or an OS call to *)
(* fail.                                                                   *)
(***************************************************************************)
ReaderStep ==
    \/ EpollReadWait \/ EpollReadDrain \/ EpollReadFile
    \/ WinReadWait \/ WinReadCheck \/ WinReadCreateEvent \/ WinReadFile
    \/ WinReadPost \/ WinReadGetResult \/ WinReadAck

CancelStep(c) ==
    \/ EpollCancelWrite(c)
    \/ WinCancelSelect(c) \/ WinCancelSelectWait(c) \/ WinCancelSetEvent(c)
    \/ WinCancelAck(c)

LiveInit == InitWith(0)

LiveSpec ==
    /\ LiveInit
    /\ [][Next]_vars
    /\ WF_vars(ReaderStep)
    /\ \A c \in Cancellers : WF_vars(CancelStep(c))

(***************************************************************************)
(* The fallback reader (newFallbackCancelReader), for a source that is not *)
(* a File.  Its code is not part of the source file; it is modelled from   *)
(* its description: Read hands the blocking read of the source to a        *)
(* background task and waits for the task or for a cancellation; Cancel    *)
(* sets the flag and returns false; the task is never terminated.          *)
(***************************************************************************)
\* Read, up to the start of the background task.
FallbackReadStart(len) ==
    /\ backend = "fallback" /\ rpc = "idle" /\ ~closed /\ reads < MaxReads
    /\ reads' = reads + 1
    /\ IF isCanceled
       THEN ReadReturns(NewRead(reads + 1), 0, "ErrCanceled", FALSE, pos)
            /\ task' = task
       ELSE rpc' = "join" /\ rd' = NewRead(reads + 1) /\ rbuf' = len
            /\ delivered' = delivered
            /\ task' = [st |-> "running", len |-> len, n |-> 0]
    /\ IsoReset
    /\ UNCHANGED <<backend, ctor, canceled, srcVars, epollVars, winVars, closeVars,
                   cancelVars, faultsLeft>>

\* The blocking read of the background task completes; it does so whether
\* or not a Read call still waits for it.
FallbackTaskRead ==
    /\ backend = "fallback" /\ task.st = "running" /\ Avail > 0
    /\ pos' = pos + Take(task.len)
    /\ task' = [task EXCEPT !.st = "done", !.n = Take(task.len)]
    /\ IsoReset
    /\ UNCHANGED <<backend, ctor, canceled, arrived, events, spurious, epollVars,
                   winVars, closeVars, readVars, cancelVars, faultsLeft>>

\* A faulty Read that waits for the background task only.
FallbackReadJoin_TaskOnly ==
    /\ backend = "fallback" /\ rpc = "join"
    /\ task.st = "done"
    /\ ReadReturns([rd EXCEPT !.srcReads = @ + 1], task.n, "nil", FALSE, pos)
    /\ task' = NoTask
    /\ IsoReset
    /\ UNCHANGED <<backend, ctor, canceled, srcVars, epollVars, winVars, closeVars,
                   reads, cancelVars, faultsLeft>>

\* Read waits for "the task has finished" or "cancellation requested",
\* whichever comes first.
FallbackReadJoin ==
    /\ backend = "fallback" /\ rpc = "join"
    /\ \/ /\ task.st = "done"
          /\ ReadReturns([rd EXCEPT !.srcReads = @ + 1], task.n, "nil", FALSE, pos)
          /\ task' = NoTask
       \/ /\ isCanceled
          /\ ReadReturns(rd, 0, "ErrCanceled", FALSE, pos)
          /\ task' = task
    /\ IsoReset
    /\ UNCHANGED <<backend, ctor, canceled, srcVars, epollVars, winVars, closeVars,
                   reads, cancelVars, faultsLeft>>

\* Cancel: sets the flag and returns false.
FallbackCancel(c) ==
    /\ backend = "fallback" /\ FirstFree(c) /\ ~closed /\ cancels < MaxCancels
    /\ setCanceled
    /\ cancels' = cancels + 1
    /\ CancelReturns(c, NewCancel, "false", "")
    /\ IsoReset
    /\ UNCHANGED <<backend, ctor, task, srcVars, epollVars, winVars, closeVars,
                   readVars, faultsLeft>>

\* Close: no OS object of the reader's own is to be released.
FallbackClose ==
    /\ backend = "fallback" /\ ~closed
    /\ rpc = "idle" /\ \A c \in Cancellers : cpc[c] = "idle"
    /\ closed' = TRUE
    /\ rd' = NoRead /\ cn' = [c \in Cancellers |-> NoCancel] /\ IsoReset
    /\ UNCHANGED <<backend, ctor, task, canceled, srcVars, epollVars, winVars, open,
                   closeLog, rpc, rbuf, reads, delivered, cpc, cancels, cancelDone,
                   faultsLeft>>

FallbackInit ==
    /\ backend = "fallback"
    /\ canceled = FALSE
    /\ arrived = 0 /\ pos = 0 /\ events = 0 /\ spurious = FALSE
    /\ pipe = 0
    /\ eventSet = FALSE /\ slot = 0 /\ io = "none" /\ hevents = 0
    /\ open = {} /\ closed = FALSE
    /\ closeLog = [attempts |-> <<>>, failed |-> {}, err |-> <<>>]
    /\ rpc = "idle" /\ rbuf = 0 /\ rd = NoRead /\ reads = 0 /\ delivered = <<>>
    /\ cpc = [c \in Cancellers |-> "idle"]
    /\ cn = [c \in Cancellers |-> NoCancel]
    /\ cancels = 0 /\ cancelDone = FALSE
    /\ faultsLeft = 0
    /\ iso = NoIso
    /\ ctor = Constructed
    /\ task = NoTask

FallbackNext ==
    \/ \E len \in 1..MaxBuf : FallbackReadStart(len)
    \/ FallbackTaskRead
    \/ FallbackReadJoin
    \/ \E c \in Cancellers : FallbackCancel(c)
    \/ FallbackClose
    \/ DataArrives

\* The reading goroutine, once inside Read, takes its next step when it can.
FallbackSpec ==
    /\ FallbackInit
    /\ [][FallbackNext]_vars
    /\ WF_vars(FallbackReadJoin)

(***************************************************************************)
(* Properties                                                              *)
(***************************************************************************)
\* C1: once a Cancel call has returned, every Read call issued afterwards
\* returns (0, ErrCanceled), on both backends and whatever Read and Cancel
\* calls come in between; the flag is never cleared.
C1_ReadAfterCancel ==
    /\ cancelDone => canceled
    /\ rd.afterCancel => rd.err = "ErrCanceled" /\ rd.n = 0 /\ rpc = "idle"

\* A second Read issued after the second of two Cancel calls has returned.
C1_Witness ==
    rd.afterCancel /\ rd.k >= 2 /\ cancels >= 2 /\ rd.err = "ErrCanceled"

\* C2: a Read that is the first one of a reader whose Cancel has returned
\* returns (0, ErrCanceled) without a readiness wait, without a read of the
\* source, and with the unread data of the source untouched.
C2_CancelBeforeRead ==
    (rd.k = 1 /\ rd.afterCancel) =>
        /\ rd.err = "ErrCanceled" /\ rd.n = 0
        /\ rd.waits = 0 /\ rd.srcReads = 0
        /\ pos = 0 /\ rd.pos0 = 0 /\ delivered = <<>>
        /\ hevents = 0 /\ io = "none"

\* The first Read of a cancelled reader has returned, data being unread.
C2_Witness ==
    rd.k = 1 /\ rd.afterCancel /\ rd.err = "ErrCanceled" /\ Avail > 0

\* C7: a Read that returns ErrCanceled returns a count of 0, has not read the
\* source and has consumed none of its bytes; the bytes consumed from the
\* source are exactly the bytes Read calls have returned, in order.
C7_CancelConsumesNothing ==
    /\ rd.err = "ErrCanceled" => rd.n = 0 /\ rd.srcReads = 0 /\ pos = rd.pos0
    /\ rpc = "idle" => delivered = Bytes(0, pos)

\* A Read that was parked in its wait has returned ErrCanceled with unread
\* data at hand, after an earlier Read has returned data.
C7_Witness ==
    rd.err = "ErrCanceled" /\ rd.waits = 1 /\ rd.k = 2 /\ pos > 0 /\ Avail > 0

\* C10: Close attempts every release step exactly once, goes on after a step
\* that fails, and returns nil exactly when every step has succeeded;
\* otherwise its error holds every step that failed.
C10_CloseReleasesAll ==
    closed =>
        /\ \A o \in Created(backend) : closeLog.attempts[o] = 1
        /\ closeLog.err = <<>> <=> closeLog.failed = {}
        /\ {closeLog.err[i] : i \in 1..Len(closeLog.err)} = closeLog.failed
        /\ Len(closeLog.err) = Cardinality(closeLog.failed)
        /\ open = closeLog.failed

\* Close has returned after its first step and a later one have failed.
C10_Witness ==
    /\ closed /\ Cardinality(closeLog.failed) >= 2
    /\ CloseSteps(backend)[1] \in closeLog.failed
    /\ reads > 0 /\ cancels > 0

\* C3: on the epoll backend a Read that is parked in its readiness wait
\* when Cancel is called returns in the end, and it returns (0, ErrCanceled)
\* unless the wait has reported the source; this needs no data to arrive.
C3_ParkedReadIsWoken ==
    \A k \in 1..MaxReads :
        (backend = "epoll" /\ rpc = "wait" /\ rd.k = k /\ canceled)
            ~> (/\ rd.k = k /\ rpc = "idle"
                /\ \/ rd.err = "ErrCanceled" /\ rd.n = 0
                   \/ rd.srcReads = 1 /\ rd.pos0 < arrived)

\* A Read that was parked has returned ErrCanceled, no data having arrived.
C3_Witness ==
    /\ backend = "epoll" /\ rd.err = "ErrCanceled" /\ rd.waits = 1
    /\ arrived = 0 /\ cancels = 1

\* Cancel call c has returned.
Returned(c) == cn[c].ret \in {"true", "false"}

\* C4: on the overlapped backend, when Cancel has returned true while a Read
\* call was in flight, that Read returns (0, ErrCanceled) and never data.
\* (A Read in which an OS call has failed is left aside.)
C4_TrueMeansInterrupted ==
    \A c \in Cancellers :
        (/\ backend = "win" /\ cn[c].ret = "true"
         /\ cn[c].readK > 0 /\ cn[c].readK = rd.k
         /\ rpc = "idle" /\ ~rd.faulted)
            => rd.err = "ErrCanceled" /\ rd.n = 0

\* C5: on the overlapped backend a Cancel called when no Read is parked at
\* the rendezvous returns false; here the case the claim names first: no
\* Read call has been issued at all.  (A Cancel whose SetEvent has failed
\* returns false for that reason and is left aside.)
C5_Original ==
    \A c \in Cancellers :
        (backend = "win" /\ Returned(c) /\ reads = 0 /\ cn[c].why # "error")
            => cn[c].ret = "false"

\* C6: on the overlapped backend a Cancel called while a Read is blocked in
\* its first wait returns true, and the Read returns (0, ErrCanceled).  Here:
\* the only Cancel so far has returned, its SetEvent not having failed, while
\* a Read was in its first wait, with no input to end that wait; then Cancel
\* has returned true and has signalled cancelEvent, which ends the wait.
C6_ParkedReadCancelled ==
    \A c \in Cancellers :
        (/\ backend = "win" /\ Returned(c) /\ cancels = 1
         /\ cn[c].readK > 0 /\ cn[c].readK = rd.k /\ rpc = "wait"
         /\ ~ConinSignalled
         /\ cn[c].why # "error")
            => cn[c].ret = "true" /\ eventSet

\* C8: Cancel is idempotent: of two Cancel calls made one after the other
\* with nothing in between and no OS call failing, the second returns, and
\* returns what the first did.
C8_Idempotent ==
    /\ (iso.count >= 2 /\ iso.clean) => iso.curRet = iso.prevRet
    /\ \A c \in Cancellers :
        ~(/\ iso.who = c /\ iso.count >= 1 /\ iso.clean
          /\ rpc = "idle" /\ \A d \in Cancellers \ {c} : cpc[d] = "idle"
          /\ backend = "epoll" /\ cpc[c] = "write" /\ pipe >= PipeCap)

\* C9: every Cancel call terminates: the write to the pipe never finds the
\* pipe full with no Read left to drain it, and the receive of the
\* acknowledgement always finds a token.
C9_CancelTerminates ==
    \A c \in Cancellers :
        /\ ~(/\ backend = "epoll" /\ cpc[c] = "write" /\ pipe >= PipeCap
             /\ rpc = "idle")
        /\ (backend = "win" /\ cpc[c] = "ack") => slot > 0

\* C13: on the overlapped backend the step by which Cancel returns false on
\* the timeout of its select leaves the flag set and changes neither
\* cancelEvent, nor the slot, nor the overlapped read, nor the Read call; and
\* a Read that is in its completion wait with the flag set returns (n, nil),
\* n being the bytes it has consumed.
C13_TimeoutFrame ==
    [][/\ \A c \in Cancellers :
            (/\ backend = "win" /\ cpc[c] \in {"select", "selectWait"}
             /\ cpc'[c] = "idle") =>
                /\ canceled /\ canceled'
                /\ cn'[c].ret = "false" /\ ~cn'[c].signalled
                /\ slot' = slot /\ eventSet' = eventSet /\ io' = io
                /\ rpc' = rpc /\ rd' = rd /\ pos' = pos
       /\ (/\ backend = "win" /\ canceled
           /\ rpc \in {"getResult", "ack"} /\ rpc' = "idle") =>
                rd'.err = "nil" /\ rd'.n = pos' - rd.pos0]_vars

\* The only Cancel has timed out during a Read that held the slot in its
\* completion wait, and that Read has returned its data since.
C13_Witness ==
    /\ backend = "win" /\ cancels = 1 /\ ~eventSet
    /\ \E c \in Cancellers :
          cn[c].why = "timeout" /\ cn[c].readK = rd.k /\ cn[c].polled = SlotCap
    /\ rpc = "idle" /\ rd.err = "nil" /\ rd.n > 0 /\ ~rd.faulted /\ slot = 0

\* No Read call and no Cancel call is in progress.
Quiescent == rpc = "idle" /\ \A c \in Cancellers : cpc[c] = "idle"

\* C14: on the epoll backend the wakeup pipe is written once over the life
\* of the instance, however many Cancel calls are made: it never holds more
\* than one byte.
C14_PipeWrittenOnce ==
    backend = "epoll" => pipe <= 1

\* C15: on the epoll backend, once a Read has returned ErrCanceled and no
\* call is in progress, no wakeup byte remains in the pipe.
C15_NoStaleSignal ==
    (backend = "epoll" /\ Quiescent /\ rd.err = "ErrCanceled") => pipe = 0

\* C16: on the epoll backend the read of the source is issued only after the
\* one wait of the same Read call has reported the source, with data at hand,
\* so that it does not block; a Read whose wait has reported the pipe or an
\* error returns without a read of the source.
C16_SourceReadOnlyWhenReady ==
    backend = "epoll" =>
        /\ rpc = "fileRead" => Avail > 0 /\ rd.waits = 1 /\ rd.srcReads = 0
        /\ rpc = "drain" => rd.waits = 1 /\ rd.srcReads = 0
        /\ rd.srcReads > 0 =>
               rd.srcReads = 1 /\ rd.waits = 1 /\ rd.err \in {"nil", "EIO"}
        /\ rd.err \in {"ErrCanceled", "kevent", "unknown error",
                       "reading cancel signal"} => rd.srcReads = 0

\* A Read is about to read the source while the wakeup pipe is readable too.
C16_Witness ==
    backend = "epoll" /\ rpc = "fileRead" /\ pipe > 0 /\ canceled

\* C17: on the overlapped backend Read does not block on the slot: when no
\* Cancel call is in progress, a Read that is to post finds the slot free.
C17_ReadNeverBlocksOnSlot ==
    (/\ backend = "win" /\ rpc = "post"
     /\ \A c \in Cancellers : cpc[c] = "idle") => slot < SlotCap

\* C18: on the overlapped backend the slot is empty whenever no Read call and
\* no Cancel call is in progress.
C18_SlotBalanced ==
    (backend = "win" /\ Quiescent) => slot = 0

\* C19: after Close, all of whose steps have succeeded, every OS object the
\* instance has created is released, the completion events of its overlapped
\* reads included.
C19_NothingLeaked ==
    (closed /\ closeLog.failed = {}) => open = {} /\ hevents = 0

\* C11: when a call of NewReader fails, NewReader returns an error and no
\* reader, and every OS object it has created is released when it returns.
C11_RollbackComplete ==
    ctor.pc = "failed" => ctor.err # "nil" /\ open = {}

\* C12: on the fallback reader every Cancel call returns false, and a Read
\* that waits for its background task when Cancel is called returns in the
\* end: (0, ErrCanceled), unless the task has produced data; this needs no
\* data to arrive.
C12_FallbackCancel ==
    /\ [](backend = "fallback" =>
            \A c \in Cancellers : Returned(c) => cn[c].ret = "false")
    /\ \A k \in 1..MaxReads :
          (backend = "fallback" /\ rpc = "join" /\ rd.k = k /\ canceled)
              ~> (/\ rd.k = k /\ rpc = "idle"
                  /\ \/ rd.err = "ErrCanceled" /\ rd.n = 0
                     \/ rd.srcReads = 1 /\ rd.pos0 < arrived)

\* A Read that waited for its task has returned ErrCanceled after a Cancel
\* that returned false, no data having arrived and the task still running.
C12_Witness ==
    /\ backend = "fallback" /\ rd.k = 1 /\ ~rd.afterCancel
    /\ rpc = "idle" /\ rd.err = "ErrCanceled"
    /\ arrived = 0 /\ task.st = "running"
    /\ \E c \in Cancellers : cn[c].ret = "false"

====
